---- MODULE Spec2Model ----
(***************************************************************************)
(* Model of the impact-analysis service: the graph store as seen through   *)
(* Neo4jGraphRepository, the depth-bounded children traversal              *)
(* (GetChildrenHierarchyUseCase), the recursive children traversal         *)
(* (GetChildrenStatusUseCase), single-entity analysis                      *)
(* (AnalyzeLineImpactUseCase + GraphTraversalStrategy) and batch analysis  *)
(* (BatchImpactAnalysisUseCase).                                           *)
(*                                                                         *)
(* Identifiers are Python strings, modelled as sequences of one-character  *)
(* strings so that they can be compared and split.  A store query is an    *)
(* await on the Neo4j client; each query issued is numbered in issue order *)
(* and the set F of numbers that fail is an input of the operation.        *)
(***************************************************************************)
EXTENDS Integers, Sequences, FiniteSets, TLC

VARIABLES store, req, pc, res, qlog, result, stack, idx

vars == <<store, req, pc, res, qlog, result, stack, idx>>

(***************************************************************************)
(* Bounds                                                                  *)
(***************************************************************************)
HierMaxStore == 3
MaxDepth == 3
MaxQueries == 6
MaxFailures == 2
StatusMaxStore == 3
SingleMaxStore == 3
BatchMaxStore == 2
MaxRoots == 2
MaxIsos == 16
MaxCount == 32
MaxIdLen == 4
\* depth at which the interpreter refuses another nested call (RecursionError)
MaxAffected == 12
MaxCalls == 4
RecursionLimit == 4

(***************************************************************************)
(* Identifiers                                                             *)
(***************************************************************************)
L1 == <<"L", "1">>
L2 == <<"L", "2">>
IsoA == <<"A", ".", "1">>
IsoB == <<"B">>
S1 == <<"S", "1">>
P1 == <<"P", "1">>
P2 == <<"P", "2">>
\* dict.get("id") of a record that has no id property
None == <<"<None>">>
\* the default of dict.get("id", "unknown")
Unknown == <<"u", "n", "k", "n", "o", "w", "n">>
NoId == <<>>
Blank == <<" ">>

IdOrUnknown(id) == IF id = None THEN Unknown ELSE id

(***************************************************************************)
(* The graph store.  The store is a set of items: Line nodes and edges     *)
(* parent -> child.  An edge item carries the child's id property (None    *)
(* when the child node has no id property) and the rest of the child's     *)
(* property bag, abstracted to its latest_status.  Universe lists the      *)
(* candidate items in the order ORDER BY child.id returns them (ascending, *)
(* nodes without id last).                                                 *)
(***************************************************************************)
Item(k, from, id, st) == [k |-> k, from |-> from, id |-> id, st |-> st]

\* the ids of the ISOs of a line with many HAS_ISO children: I01, I02, ...
Digits == <<"0", "1", "2", "3", "4", "5", "6", "7", "8", "9">>
IsoN(k) == <<"I", Digits[(k \div 10) + 1], Digits[(k % 10) + 1]>>
ManyIsos == [k \in 1..MaxIsos |-> Item("has_iso", L1, IsoN(k), "i")]

Universe ==
  << Item("line", NoId, L1, "l1"),
     Item("line", NoId, L2, "l2"),
     Item("has_iso", L1, IsoA, "i1"),
     Item("has_iso", L1, IsoB, "i2"),
     Item("has_iso", L2, IsoA, "i1"),
     Item("spool", IsoA, S1, "fabricated"),
     Item("spool", IsoA, S1, "in_progress"),
     Item("spool", IsoA, None, "hold"),
     Item("spool", IsoB, S1, "fabricated"),
     Item("spool", IsoB, None, "released"),
     Item("part", IsoA, P1, "p1"),
     Item("part", IsoA, None, "p3"),
     Item("part", IsoB, P1, "p1"),
     Item("part", IsoB, None, "p4"),
     Item("groups", S1, P1, "p1"),
     Item("groups", S1, P2, "p2"),
     Item("other", S1, IsoA, "i1") >> \o ManyIsos

Range(s) == {s[i] : i \in 1..Len(s)}

\* the stores of at most n items, made of the kinds of item an operation can see
Stores(n, kinds) ==
  {S \in SUBSET {it \in Range(Universe) \ Range(ManyIsos) : it.k \in kinds} : Cardinality(S) <= n}

\* MATCH (l:Line {id: $line_id}): a Line node exists when the store holds it,
\* alone or as the source of a HAS_ISO edge
LineExists(line_id) ==
  \E it \in store : (it.k = "line" /\ it.id = line_id) \/ (it.k = "has_iso" /\ it.from = line_id)

\* the records a pattern query returns, in store order
Rows(k, from) == SelectSeq(Universe, LAMBDA it : it \in store /\ it.k = k /\ it.from = from)

Rec(it) == [id |-> it.id, latest_status |-> it.st]

RowRecs(k, from) == LET rows == Rows(k, from) IN [i \in 1..Len(rows) |-> Rec(rows[i])]

\* one awaited store call: Q(kind, argument) appended to the log with its outcome
Issue(log, F, q, arg) == Append(log, [q |-> q, arg |-> arg, ok |-> (Len(log) + 1) \notin F])

LastOk(log) == log[Len(log)].ok

(***************************************************************************)
(* GetChildrenHierarchyUseCase                                             *)
(***************************************************************************)
Lower(t) ==
  CASE t \in {"Line", "LINE", "line"} -> "line"
    [] t \in {"ISO", "iso"} -> "iso"
    [] t \in {"SPOOL", "spool"} -> "spool"
    [] t \in {"Part", "PART", "part"} -> "part"
    [] t \in {"Equipment", "EQUIPMENT", "equipment"} -> "equipment"
    [] t \in {"Valve", "valve"} -> "valve"
    [] OTHER -> t

Node(id, st, ch) == [id |-> id, latest_status |-> st, children |-> ch]

Ret(ch, log, exc) == [ch |-> ch, log |-> log, exc |-> exc]

GetSpoolChildren(spool_id, max_depth, current_depth, F, log) ==
  IF current_depth > max_depth THEN Ret(<<>>, log, "none")
  ELSE LET log2 == Issue(log, F, "groups", spool_id)
           recs == RowRecs("groups", spool_id)
       IN IF LastOk(log2)
          THEN Ret([i \in 1..Len(recs) |-> Node(IdOrUnknown(recs[i].id), "null", <<>>)], log2, "none")
          ELSE Ret(<<>>, log2, "none")

RECURSIVE HierSpoolLoop(_, _, _, _, _, _, _)
\* faulty variant: the spool node is put in front of the earlier ones
HierSpoolAppend_Prepend(spools, i, max_depth, current_depth, F, acc, sub) ==
  IF sub.exc # "none" THEN Ret(<<>>, sub.log, sub.exc)
  ELSE HierSpoolLoop(spools, i + 1, max_depth, current_depth, F,
                     <<Node(IdOrUnknown(spools[i].id), spools[i].latest_status, sub.ch)>> \o acc,
                     sub.log)

\* the rest of one iteration of the spool loop, once the spool's subtree is known
HierSpoolAppend(spools, i, max_depth, current_depth, F, acc, sub) ==
  IF sub.exc # "none" THEN Ret(<<>>, sub.log, sub.exc)
  ELSE HierSpoolLoop(spools, i + 1, max_depth, current_depth, F,
                     Append(acc, Node(IdOrUnknown(spools[i].id), spools[i].latest_status, sub.ch)),
                     sub.log)

HierSpoolLoop(spools, i, max_depth, current_depth, F, acc, log) ==
  IF i > Len(spools) THEN Ret(acc, log, "none")
  ELSE HierSpoolAppend(spools, i, max_depth, current_depth, F, acc,
                       IF current_depth < max_depth
                       THEN GetSpoolChildren(IdOrUnknown(spools[i].id), max_depth, current_depth + 1, F, log)
                       ELSE Ret(<<>>, log, "none"))

\* faulty variant: a part already listed under a spool is not listed again
HierIsoParts_Dedup(iso_id, F, r) ==
  IF r.exc # "none" THEN r
  ELSE LET log3 == Issue(r.log, F, "parts", iso_id)
           seen == UNION {{r.ch[i].children[j].id : j \in 1..Len(r.ch[i].children)} : i \in 1..Len(r.ch)}
           parts == SelectSeq(RowRecs("part", iso_id), LAMBDA p : IdOrUnknown(p.id) \notin seen)
       IN IF ~LastOk(log3) THEN Ret(<<>>, log3, "DatabaseConnectionError")
          ELSE Ret(r.ch \o [i \in 1..Len(parts) |-> Node(IdOrUnknown(parts[i].id), "null", <<>>)],
                   log3, "none")

\* the second half of _get_iso_children: the parts query after the spool loop r
HierIsoParts(iso_id, F, r) ==
  IF r.exc # "none" THEN r
  ELSE LET log3 == Issue(r.log, F, "parts", iso_id)
           parts == RowRecs("part", iso_id)
       IN IF ~LastOk(log3) THEN Ret(<<>>, log3, "DatabaseConnectionError")
          ELSE Ret(r.ch \o [i \in 1..Len(parts) |-> Node(IdOrUnknown(parts[i].id), "null", <<>>)],
                   log3, "none")

\* faulty variant: both queries of the ISO are issued before the spools' subtrees
GetIsoChildren_BreadthFirst(iso_id, max_depth, current_depth, F, log) ==
  IF current_depth > max_depth THEN Ret(<<>>, log, "none")
  ELSE LET log2 == Issue(log, F, "spools", iso_id)
           log3 == Issue(log2, F, "parts", iso_id)
           parts == RowRecs("part", iso_id)
           r == HierSpoolLoop(RowRecs("spool", iso_id), 1, max_depth, current_depth, F, <<>>, log3)
       IN IF ~LastOk(log2) THEN Ret(<<>>, log2, "DatabaseConnectionError")
          ELSE IF ~LastOk(log3) THEN Ret(<<>>, log3, "DatabaseConnectionError")
          ELSE Ret(r.ch \o [i \in 1..Len(parts) |-> Node(IdOrUnknown(parts[i].id), "null", <<>>)],
                   r.log, r.exc)

\* faulty variant: the spool loop is entered one level too shallow
GetIsoChildren_OffByOne(iso_id, max_depth, current_depth, F, log) ==
  IF current_depth > max_depth THEN Ret(<<>>, log, "none")
  ELSE LET log2 == Issue(log, F, "spools", iso_id)
       IN IF ~LastOk(log2) THEN Ret(<<>>, log2, "DatabaseConnectionError")
          ELSE HierIsoParts(iso_id, F,
                 HierSpoolLoop(RowRecs("spool", iso_id), 1, max_depth, current_depth - 1, F, <<>>, log2))

GetIsoChildren(iso_id, max_depth, current_depth, F, log) ==
  IF current_depth > max_depth THEN Ret(<<>>, log, "none")
  ELSE LET log2 == Issue(log, F, "spools", iso_id)
       IN IF ~LastOk(log2) THEN Ret(<<>>, log2, "DatabaseConnectionError")
          ELSE HierIsoParts(iso_id, F,
                 HierSpoolLoop(RowRecs("spool", iso_id), 1, max_depth, current_depth, F, <<>>, log2))

RECURSIVE HierIsoLoop(_, _, _, _, _, _, _)
\* the rest of one iteration of the ISO loop, once the ISO's subtree is known
HierIsoAppend(isos, i, max_depth, current_depth, F, acc, sub) ==
  IF sub.exc # "none" THEN Ret(<<>>, sub.log, sub.exc)
  ELSE HierIsoLoop(isos, i + 1, max_depth, current_depth, F,
                   Append(acc, Node(isos[i].id, "null", sub.ch)), sub.log)

HierIsoLoop(isos, i, max_depth, current_depth, F, acc, log) ==
  IF i > Len(isos) THEN Ret(acc, log, "none")
  ELSE HierIsoAppend(isos, i, max_depth, current_depth, F, acc,
                     IF current_depth < max_depth
                     THEN GetIsoChildren(isos[i].id, max_depth, current_depth + 1, F, log)
                     ELSE Ret(<<>>, log, "none"))

GetLineChildren(line_id, max_depth, current_depth, F, log) ==
  IF current_depth > max_depth THEN Ret(<<>>, log, "none")
  ELSE LET log2 == Issue(log, F, "isos", line_id)
       IN IF ~LastOk(log2) THEN Ret(<<>>, log2, "DatabaseConnectionError")
          ELSE HierIsoLoop(RowRecs("has_iso", line_id), 1, max_depth, current_depth, F, <<>>, log2)

\* faulty variant: only the top level is counted
CountDescendants_TopLevel(children) == Len(children)

RECURSIVE CountDescendants(_)
CountDescendants(children) ==
  IF children = <<>> THEN 0
  ELSE 1 + CountDescendants(Head(children).children) + CountDescendants(Tail(children))

\* the requests: (entity_type, entity_id) pairs, well-typed and not
HierTargets == { <<"Line", L1>>, <<"LINE", L2>>, <<"iso", IsoA>>, <<"ISO", IsoB>>,
                 <<"SPOOL", S1>>, <<"Part", P1>>, <<"line", IsoA>> }

HierRun(F) ==
  LET t == Lower(req.entity_type)
  IN CASE t = "line" -> GetLineChildren(req.entity_id, req.depth, 1, F, <<>>)
       [] t = "iso" -> GetIsoChildren(req.entity_id, req.depth, 1, F, <<>>)
       [] t = "spool" -> GetSpoolChildren(req.entity_id, req.depth, 1, F, <<>>)
       [] OTHER -> Ret(<<>>, <<>>, "none")

\* the store calls of one request that fail: at most MaxFailures of them
FailureSets == {F \in SUBSET (1..MaxQueries) : Cardinality(F) <= MaxFailures}

\* the response of execute: children and total_descendants, or the exception
HierResponse(r) ==
  IF r.exc # "none"
  THEN [kind |-> "raised", exc |-> r.exc, children |-> <<>>, total_descendants |-> 0]
  ELSE [kind |-> "ok", exc |-> "none", children |-> r.ch,
        total_descendants |-> CountDescendants(r.ch)]

HierReturn(r) ==
  /\ qlog' = r.log
  /\ res' = HierResponse(r)

HierExecute ==
  /\ pc = "hier"
  /\ \E F \in FailureSets : HierReturn(HierRun(F))
  /\ pc' = "done"
  /\ UNCHANGED <<store, req, result, stack, idx>>

NoRes == [kind |-> "pending", exc |-> "none", children |-> <<>>, total_descendants |-> 0]

HierInit ==
  /\ store \in Stores(HierMaxStore, {"has_iso", "spool", "part", "groups"})
  /\ \E t \in HierTargets, d \in 1..MaxDepth :
       req = [entity_type |-> t[1], entity_id |-> t[2], depth |-> d]
  /\ pc = "hier"
  /\ res = NoRes
  /\ qlog = <<>>
  /\ result = <<>>
  /\ stack = <<>>
  /\ idx = 0

HierNext == HierExecute

SpecHier == HierInit /\ [][HierNext]_vars

(***************************************************************************)
(* Properties of the depth-bounded children traversal                      *)
(***************************************************************************)
RECURSIVE Height(_)
Height(children) ==
  IF children = <<>> THEN 0
  ELSE LET h1 == 1 + Height(Head(children).children)
           h2 == Height(Tail(children))
       IN IF h1 >= h2 THEN h1 ELSE h2

HierDone == pc = "done" /\ res.kind = "ok"

\* C1: for execute(entity_type, entity_id, depth = d) with d >= 1, every node
\* of the returned tree lies at most d edges below the queried root, so the
\* nodes at level d have no children.
C1_DepthBound == HierDone => Height(res.children) <= req.depth

\* C1 witness: a Line queried at depth 2 returns a tree of height 2 whose
\* spool S1 has parts in the store that the bound cuts off.
C1_Witness ==
  /\ HierDone
  /\ req.depth = 2
  /\ Lower(req.entity_type) = "line"
  /\ \E i \in 1..Len(res.children) : \E j \in 1..Len(res.children[i].children) :
        /\ res.children[i].children[j].id = S1
        /\ res.children[i].children[j].children = <<>>
  /\ \E it \in store : it.k = "groups" /\ it.from = S1
  /\ \A i \in 1..Len(qlog) : qlog[i].ok

HierNonRootFailure ==
  \E i \in 1..Len(qlog) : ~qlog[i].ok /\ qlog[i].arg # req.entity_id

\* C7: a store failure while fetching the children of a non-root node (the
\* spools or parts of an ISO reached from a Line, or the parts of a SPOOL)
\* truncates only that node's children: execute raises nothing and still
\* returns the rest of the tree (every ISO of the queried Line).
C7_SubtreeOnly ==
  (pc = "done" /\ HierNonRootFailure) =>
     /\ res.kind = "ok"
     /\ Lower(req.entity_type) = "line" =>
          Len(res.children) = Len(RowRecs("has_iso", req.entity_id))

(***************************************************************************)
(* GetChildrenStatusUseCase: execute and _get_children_recursive, one      *)
(* action per store query / call / return.  stack holds the active calls   *)
(* of _get_children_recursive, outermost first.                            *)
(***************************************************************************)
\* ascending order of ORDER BY child.id, nodes without id last
IdOrder == <<IsoA, IsoB, L1, L2, P1, P2, S1, None>>

\* MATCH (parent {id: $parent_id})-[r]->(child) ... ORDER BY child.id
RECURSIVE ChildRows(_, _)
ChildRows(parent_id, n) ==
  IF n = 0 THEN <<>>
  ELSE ChildRows(parent_id, n - 1) \o
       SelectSeq(Universe, LAMBDA it : /\ it \in store /\ it.k # "line"
                                       /\ it.from = parent_id /\ it.id = IdOrder[n])

\* MATCH (entity {id: $entity_id})
NodeExists(id) == \E it \in store : it.id = id \/ it.from = id

\* labels(node)[0]
LabelOf(id) ==
  CASE id \in {L1, L2} -> "Line"
    [] id \in {IsoA, IsoB} -> "ISO"
    [] id = S1 -> "SPOOL"
    [] id \in {P1, P2} -> "Part"
    [] OTHER -> "Unknown"

ChildLabel(it) ==
  CASE it.k \in {"has_iso", "other"} -> "ISO"
    [] it.k = "spool" -> "SPOOL"
    [] OTHER -> "Part"

StatusNode(id, type, st, ch) == [id |-> id, type |-> type, status |-> st, children |-> ch]

StatusRes(kind, exc, type, ch) == [kind |-> kind, exc |-> exc, entity_type |-> type, children |-> ch]

\* the handler of execute: any exception yields the empty "Unknown" answer
StatusFallback(exc) == StatusRes("fallback", exc, "Unknown", <<>>)

Frame(parent, rows) == [parent |-> parent, rows |-> rows, i |-> 1, acc |-> <<>>]

\* the id _get_children_recursive is about to be called with
NextCallee ==
  IF stack = <<>> THEN req.entity_id
  ELSE LET top == stack[Len(stack)] IN IdOrUnknown(top.rows[top.i].id)

\* faulty variant: a missing entity is reported by raising
StatusLookup_RaiseNotFound ==
  /\ pc = "status"
  /\ \E ok \in BOOLEAN :
       /\ qlog' = Append(qlog, [q |-> "entity", arg |-> req.entity_id, ok |-> ok])
       /\ IF ~ok
          THEN pc' = "done" /\ res' = StatusFallback("DatabaseConnectionError")
          ELSE IF ~NodeExists(req.entity_id)
          THEN pc' = "done" /\ res' = StatusRes("raised", "EntityNotFoundError", "Unknown", <<>>)
          ELSE pc' = "recurse" /\ res' = res
  /\ UNCHANGED <<store, req, result, stack, idx>>

\* execute: look the entity up
StatusLookup ==
  /\ pc = "status"
  /\ \E ok \in BOOLEAN :
       /\ qlog' = Append(qlog, [q |-> "entity", arg |-> req.entity_id, ok |-> ok])
       /\ IF ~ok
          THEN pc' = "done" /\ res' = StatusFallback("DatabaseConnectionError")
          ELSE IF ~NodeExists(req.entity_id)
          THEN pc' = "done" /\ res' = StatusRes("notfound", "none", "Unknown", <<>>)
          ELSE pc' = "recurse" /\ res' = res
  /\ UNCHANGED <<store, req, result, stack, idx>>

\* a nested call is possible while the interpreter's recursion limit is not reached
StatusCallable == Len(stack) < RecursionLimit

\* a call of _get_children_recursive: the initial one or the one for the next child
StatusCall ==
  /\ pc = "recurse"
  /\ IF stack = <<>> THEN TRUE ELSE stack[Len(stack)].i <= Len(stack[Len(stack)].rows)
  /\ IF ~StatusCallable
     THEN /\ pc' = "done" /\ res' = StatusFallback("RecursionError")
          /\ stack' = <<>> /\ qlog' = qlog
     ELSE \E ok \in BOOLEAN :
            /\ qlog' = Append(qlog, [q |-> "children", arg |-> NextCallee, ok |-> ok])
            /\ IF ok
               THEN /\ stack' = Append(stack, Frame(NextCallee, ChildRows(NextCallee, Len(IdOrder))))
                    /\ pc' = pc /\ res' = res
               ELSE /\ stack' = <<>>
                    /\ pc' = "done" /\ res' = StatusFallback("DatabaseConnectionError")
  /\ UNCHANGED <<store, req, result, idx>>

\* _get_children_recursive returns its children list to its caller
StatusReturn ==
  /\ pc = "recurse"
  /\ stack # <<>>
  /\ LET n == Len(stack)
         top == stack[n]
     IN /\ top.i > Len(top.rows)
        /\ IF n = 1
           THEN /\ stack' = <<>>
                /\ pc' = "done"
                /\ res' = StatusRes("ok", "none", LabelOf(req.entity_id), top.acc)
           ELSE LET caller == stack[n - 1]
                    row == caller.rows[caller.i]
                    node == StatusNode(IdOrUnknown(row.id), ChildLabel(row), row.st, top.acc)
                IN /\ stack' = [SubSeq(stack, 1, n - 1) EXCEPT
                                  ![n - 1] = [caller EXCEPT !.i = caller.i + 1,
                                                            !.acc = Append(caller.acc, node)]]
                   /\ pc' = pc /\ res' = res
  /\ UNCHANGED <<store, req, qlog, result, idx>>

StatusIds == {L1, IsoA, S1, P2}

StatusInit ==
  /\ store \in Stores(StatusMaxStore, {"line", "has_iso", "spool", "part", "groups", "other"})
  /\ \E id \in StatusIds : req = [entity_type |-> "", entity_id |-> id, depth |-> 0]
  /\ pc = "status"
  /\ res = NoRes
  /\ qlog = <<>>
  /\ result = <<>>
  /\ stack = <<>>
  /\ idx = 0

StatusNext == StatusLookup \/ StatusCall \/ StatusReturn

SpecStatus == StatusInit /\ [][StatusNext]_vars

\* the ids of the calls currently active, root first
StatusPath == [k \in 1..Len(stack) |-> stack[k].parent]

\* C2: the recursive children traversal terminates by itself on every finite
\* store graph, cycles included: no node id is entered again below itself on
\* the current root-to-node path, and the recursion is never cut off by the
\* interpreter's recursion limit.
C2_CycleSafe ==
  /\ \A a, b \in 1..Len(stack) : a # b => StatusPath[a] # StatusPath[b]
  /\ res.exc # "RecursionError"

(***************************************************************************)
(* ISO.parse_iso_id                                                        *)
(***************************************************************************)
\* str.split('.'): the segments between the dots, in order
RECURSIVE SplitDot(_, _, _)
SplitDot(s, i, cur) ==
  IF i > Len(s) THEN <<cur>>
  ELSE IF s[i] = "." THEN <<cur>> \o SplitDot(s, i + 1, <<>>)
  ELSE SplitDot(s, i + 1, Append(cur, s[i]))

\* faulty variant: the sheet is taken only when a third part exists
ParseIsoId_OffByOne(iso_id) ==
  LET parts == SplitDot(iso_id, 1, <<>>)
  IN [id |-> iso_id,
      iso_number |-> IF Len(parts) > 0 THEN parts[1] ELSE iso_id,
      sheet_number |-> IF Len(parts) > 2 THEN parts[2] ELSE None]

ParseIsoId(iso_id) ==
  LET parts == SplitDot(iso_id, 1, <<>>)
  IN [id |-> iso_id,
      iso_number |-> IF Len(parts) > 0 THEN parts[1] ELSE iso_id,
      sheet_number |-> IF Len(parts) > 1 THEN parts[2] ELSE None]

(***************************************************************************)
(* Single-entity analysis: AnalyzeLineImpactUseCase.execute and            *)
(* GraphTraversalStrategy.analyze                                          *)
(***************************************************************************)
\* faulty variant: the thresholds of the batch classifier
AssessSeveritySingle_BatchBands(impact_count) ==
  IF impact_count = 0 THEN "LOW"
  ELSE IF impact_count <= 10 THEN "MEDIUM"
  ELSE IF impact_count <= 30 THEN "HIGH"
  ELSE "CRITICAL"

AssessSeveritySingle(impact_count) ==
  IF impact_count = 0 THEN "LOW"
  ELSE IF impact_count <= 5 THEN "MEDIUM"
  ELSE IF impact_count <= 15 THEN "HIGH"
  ELSE "CRITICAL"

\* faulty variant: every type is taken as supported
SupportsEntityType_Any(entity_type) == TRUE

SupportsEntityType(entity_type) ==
  Lower(entity_type) \in {"line", "iso", "equipment", "spool", "part"}

\* the state of one analysis: the ImpactResult being filled, the query log, the exception raised
Ana(isos, spools, parts, log, exc) ==
  [affected_isos |-> isos, affected_spools |-> spools, affected_parts |-> parts,
   log |-> log, exc |-> exc]

\* the loop of _analyze_line_impact over the line's ISOs
RECURSIVE LineImpactLoop(_, _, _, _)
LineImpactLoop(isos, i, F, a) ==
  IF i > Len(isos) THEN a
  ELSE LET log1 == Issue(a.log, F, "spools", isos[i].id)
           log2 == Issue(log1, F, "parts", isos[i].id)
       IN IF ~LastOk(log1) THEN [a EXCEPT !.log = log1, !.exc = "DatabaseConnectionError"]
          ELSE IF ~LastOk(log2) THEN [a EXCEPT !.log = log2, !.exc = "DatabaseConnectionError"]
          ELSE LineImpactLoop(isos, i + 1, F,
                 [a EXCEPT !.log = log2,
                           !.affected_spools = @ \o RowRecs("spool", isos[i].id),
                           !.affected_parts = @ \o RowRecs("part", isos[i].id)])

IsoList(line_id) ==
  LET rows == Rows("has_iso", line_id) IN [i \in 1..Len(rows) |-> ParseIsoId(rows[i].id)]

AnalyzeLineImpact(line_id, F) ==
  LET log1 == Issue(<<>>, F, "line", line_id)
      log2 == Issue(log1, F, "isos", line_id)
  IN IF ~LastOk(log1) THEN Ana(<<>>, <<>>, <<>>, log1, "DatabaseConnectionError")
     ELSE IF ~LineExists(line_id) THEN Ana(<<>>, <<>>, <<>>, log1, "EntityNotFoundError")
     ELSE IF ~LastOk(log2) THEN Ana(<<>>, <<>>, <<>>, log2, "DatabaseConnectionError")
     ELSE LineImpactLoop(IsoList(line_id), 1, F, Ana(IsoList(line_id), <<>>, <<>>, log2, "none"))

AnalyzeIsoImpact(iso_id, F) ==
  LET log1 == Issue(<<>>, F, "spools", iso_id)
      log2 == Issue(log1, F, "parts", iso_id)
  IN IF ~LastOk(log1) THEN Ana(<<>>, <<>>, <<>>, log1, "DatabaseConnectionError")
     ELSE IF ~LastOk(log2) THEN Ana(<<>>, <<>>, <<>>, log2, "DatabaseConnectionError")
     ELSE Ana(<<ParseIsoId(iso_id)>>, RowRecs("spool", iso_id), RowRecs("part", iso_id), log2, "none")

\* traverse_impact_graph: the items reached from start_id in 1..n hops
RECURSIVE Reached(_, _)
Reached(start_id, n) ==
  IF n = 0 THEN {}
  ELSE LET prev == Reached(start_id, n - 1)
       IN {it \in store : /\ it.k # "line"
                          /\ \/ it.from = start_id
                             \/ \E p \in prev : p.id = it.from}

TraverseMaxDepth == 5

\* the distinct nodes reached, in store order, of one label
ReachedOfLabel(entity_type, start_id, label) ==
  LET reach == IF NodeExists(start_id) /\ LabelOf(start_id) = entity_type
               THEN Reached(start_id, TraverseMaxDepth) ELSE {}
      rows == SelectSeq(Universe, LAMBDA it : it \in reach /\ ChildLabel(it) = label)
      recs == [i \in 1..Len(rows) |-> Rec(rows[i])]
  IN SelectSeq([i \in 1..Len(recs) |-> [r |-> recs[i], first |-> \A j \in 1..(i - 1) : recs[j] # recs[i]]],
               LAMBDA x : x.first)

AnalyzeGenericImpact(entity_type, entity_id, F) ==
  LET log1 == Issue(<<>>, F, "traverse", entity_id)
      isos == ReachedOfLabel(entity_type, entity_id, "ISO")
      spools == ReachedOfLabel(entity_type, entity_id, "SPOOL")
      parts == ReachedOfLabel(entity_type, entity_id, "Part")
  IN IF ~LastOk(log1) THEN Ana(<<>>, <<>>, <<>>, log1, "DatabaseConnectionError")
     ELSE Ana([i \in 1..Len(isos) |-> ParseIsoId(isos[i].r.id)],
              [i \in 1..Len(spools) |-> spools[i].r],
              [i \in 1..Len(parts) |-> parts[i].r], log1, "none")

\* faulty variant: the analysed entity itself is counted
CalculateImpactCount_WithRoot(a) ==
  1 + Len(a.affected_isos) + Len(a.affected_spools) + Len(a.affected_parts)

CalculateImpactCount(a) ==
  Len(a.affected_isos) + Len(a.affected_spools) + Len(a.affected_parts)

SingleRaised(exc, log) ==
  [kind |-> "raised", exc |-> exc, affected_isos |-> <<>>, affected_spools |-> <<>>,
   affected_parts |-> <<>>, impact_count |-> 0, severity |-> "null", log |-> log]

\* GraphTraversalStrategy.analyze
StrategyAnalyze(F) ==
  LET t == Lower(req.entity_type)
      a == CASE t = "line" -> AnalyzeLineImpact(req.entity_id, F)
             [] t = "iso" -> AnalyzeIsoImpact(req.entity_id, F)
             [] OTHER -> AnalyzeGenericImpact(req.entity_type, req.entity_id, F)
  IN IF req.entity_id = NoId \/ req.entity_type = ""
     THEN SingleRaised("InvalidChangeEventError", <<>>)
     ELSE IF a.exc # "none" THEN SingleRaised(a.exc, a.log)
     ELSE [kind |-> "ok", exc |-> "none", affected_isos |-> a.affected_isos,
           affected_spools |-> a.affected_spools, affected_parts |-> a.affected_parts,
           impact_count |-> CalculateImpactCount(a),
           severity |-> AssessSeveritySingle(CalculateImpactCount(a)), log |-> a.log]

\* AnalyzeLineImpactUseCase.execute.  No store failure is caught on this path,
\* so the first failing query f (0: none fails) decides the outcome.
SingleExecute ==
  /\ pc = "single"
  /\ \E f \in 0..MaxQueries :
       LET F == {f}
           r == IF req.entity_id = NoId \/ req.entity_type = "" \/ req.description = ""
                THEN SingleRaised("InvalidChangeEventError", <<>>)
                ELSE IF ~SupportsEntityType(req.entity_type)
                THEN SingleRaised("InvalidChangeEventError", <<>>)
                ELSE StrategyAnalyze(F)
       IN /\ qlog' = r.log
          /\ res' = [x \in DOMAIN r \ {"log"} |-> r[x]]
  /\ pc' = "done"
  /\ UNCHANGED <<store, req, result, stack, idx>>

SingleTargets == { <<"Line", L1>>, <<"line", L2>>, <<"ISO", IsoA>>, <<"iso", IsoB>>,
                   <<"SPOOL", S1>>, <<"Part", P1>>, <<"Equipment", L1>>, <<"Valve", S1>>,
                   <<"ISO", NoId>>, <<"", L1>>, <<"Line", Blank>> }

SingleInit ==
  /\ store \in Stores(SingleMaxStore, {"line", "has_iso", "spool", "part", "groups", "other"})
  /\ \E t \in SingleTargets, d \in {"", "spec change"} :
       req = [entity_type |-> t[1], entity_id |-> t[2], depth |-> 0, description |-> d]
  /\ pc = "single"
  /\ res = NoRes
  /\ qlog = <<>>
  /\ result = <<>>
  /\ stack = <<>>
  /\ idx = 0

SingleNext == SingleExecute

SpecSingle == SingleInit /\ [][SingleNext]_vars

SingleAllOk == \A i \in 1..Len(qlog) : qlog[i].ok

\* A line with 0..MaxIsos HAS_ISO children and nothing below them, analysed
\* like any other single entity
LineIsosInit ==
  /\ \E n \in 0..MaxIsos, base \in SUBSET {Item("line", NoId, L1, "l1")} :
       store = base \cup {ManyIsos[k] : k \in 1..n}
  /\ \E t \in SingleTargets, d \in {"", "spec change"} :
       req = [entity_type |-> t[1], entity_id |-> t[2], depth |-> 0, description |-> d]
  /\ pc = "single"
  /\ res = NoRes
  /\ qlog = <<>>
  /\ result = <<>>
  /\ stack = <<>>
  /\ idx = 0

SpecLineIsos == LineIsosInit /\ [][SingleNext]_vars

\* C3: single-entity analysis of an entity of type Line or ISO whose id is not
\* present in the store fails with EntityNotFoundError and returns no
\* ImpactResult.
C3_NotFoundFails ==
  (/\ pc = "done"
   /\ Lower(req.entity_type) \in {"line", "iso"}
   /\ req.entity_id # NoId /\ req.description # ""
   /\ ~NodeExists(req.entity_id)
   /\ SingleAllOk)
  => (res.kind = "raised" /\ res.exc = "EntityNotFoundError")

IdsOf(recs) == {recs[i].id : i \in 1..Len(recs)}

NoDupIds(recs) == \A i, j \in 1..Len(recs) : i # j => recs[i].id # recs[j].id

\* C10: the ImpactResult of a single-entity Line analysis lists each affected
\* spool and each affected part at most once (by id), even when two ISOs of
\* the line share a spool or a part, so impact_count counts each shared
\* entity once.
C10_SingleDedup ==
  (pc = "done" /\ res.kind = "ok" /\ Lower(req.entity_type) = "line")
  => /\ NoDupIds(res.affected_spools)
     /\ NoDupIds(res.affected_parts)
     /\ res.impact_count = Len(res.affected_isos) + Cardinality(IdsOf(res.affected_spools))
                           + Cardinality(IdsOf(res.affected_parts))

(***************************************************************************)
(* BatchImpactAnalysisUseCase.  execute processes the roots one after the  *)
(* other (lines first, then ISOs): one action per root, then the metrics.  *)
(* idx counts the roots processed.  While one root is processed the first  *)
(* failing store query f (0: none) ends that root's processing.            *)
(***************************************************************************)
Entity(id, type, props) == [id |-> id, type |-> type, properties |-> props]

HNode(id, type, ch, props, ic) ==
  [entity_id |-> id, entity_type |-> type, children |-> ch, properties |-> props, impact_count |-> ic]

\* the state threaded through the processing of one root
Bst(r, log, exc) == [result |-> r, log |-> log, exc |-> exc]

\* faulty variant: append without looking for the id
AddIsoIfAbsent_Always(isos, iso_id) == Append(isos, Entity(iso_id, "ISO", ParseIsoId(iso_id)))

\* "Add to affected ISOs (avoid duplicates)"
AddIsoIfAbsent(isos, iso_id) ==
  IF \E k \in 1..Len(isos) : isos[k].id = iso_id THEN isos
  ELSE Append(isos, Entity(iso_id, "ISO", ParseIsoId(iso_id)))

\* the loops of _get_iso_children over the spool / part records: the flat list
RECURSIVE AddRecsIfAbsent(_, _, _, _)
AddRecsIfAbsent(list, recs, i, type) ==
  IF i > Len(recs) THEN list
  ELSE AddRecsIfAbsent(
         IF \E k \in 1..Len(list) : list[k].id = recs[i].id THEN list
         ELSE Append(list, Entity(IdOrUnknown(recs[i].id), type, recs[i])),
         recs, i + 1, type)

\* the loops of _get_iso_children over the spool / part records: the hierarchy children
LeafNodes(recs, type) ==
  [i \in 1..Len(recs) |-> HNode(IdOrUnknown(recs[i].id), type, <<>>, recs[i], 1)]

\* _get_iso_children: returns the hierarchy node (field node) and the updated state
BatchGetIsoChildren(iso_id, include_spools, include_parts, F, b) ==
  LET log1 == IF include_spools THEN Issue(b.log, F, "spools", iso_id) ELSE b.log
      spools == IF include_spools THEN RowRecs("spool", iso_id) ELSE <<>>
      ok1 == include_spools => LastOk(log1)
      r1 == [b.result EXCEPT !.affected_spools = AddRecsIfAbsent(@, spools, 1, "SPOOL")]
      log2 == IF include_parts THEN Issue(log1, F, "parts", iso_id) ELSE log1
      parts == IF include_parts THEN RowRecs("part", iso_id) ELSE <<>>
      ok2 == include_parts => LastOk(log2)
      r2 == [r1 EXCEPT !.affected_parts = AddRecsIfAbsent(@, parts, 1, "Part")]
      ch == LeafNodes(spools, "SPOOL") \o LeafNodes(parts, "Part")
  IN IF ~ok1 THEN [node |-> HNode(iso_id, "ISO", <<>>, ParseIsoId(iso_id), 0),
                   st |-> Bst(b.result, log1, "DatabaseConnectionError")]
     ELSE IF ~ok2 THEN [node |-> HNode(iso_id, "ISO", LeafNodes(spools, "SPOOL"), ParseIsoId(iso_id), 0),
                        st |-> Bst(r1, log2, "DatabaseConnectionError")]
     ELSE [node |-> HNode(iso_id, "ISO", ch, ParseIsoId(iso_id), Len(ch)),
           st |-> Bst(r2, log2, "none")]

RECURSIVE CountHierarchyImpacts(_)
RECURSIVE CountHierarchyList(_)
CountHierarchyImpacts(node) == 1 + CountHierarchyList(node.children)
CountHierarchyList(children) ==
  IF children = <<>> THEN 0
  ELSE CountHierarchyImpacts(Head(children)) + CountHierarchyList(Tail(children))

\* the loop of _process_line over the line's ISOs; hn is the line's hierarchy node
RECURSIVE BatchLineLoop(_, _, _, _, _, _, _)
BatchLineLoop(isos, i, include_spools, include_parts, F, hn, b) ==
  IF i > Len(isos) THEN [node |-> hn, st |-> b]
  ELSE LET b1 == [b EXCEPT !.result.affected_isos = AddIsoIfAbsent(@, isos[i].id)]
           c == BatchGetIsoChildren(isos[i].id, include_spools, include_parts, F, b1)
       IN IF c.st.exc # "none" THEN [node |-> hn, st |-> c.st]
          ELSE BatchLineLoop(isos, i + 1, include_spools, include_parts, F,
                             [hn EXCEPT !.children = Append(@, c.node)], c.st)

LineProps(line_id) == [id |-> line_id]

\* the try block of _process_line
ProcessLineBody(line_id, include_spools, include_parts, F, r) ==
  LET log1 == Issue(<<>>, F, "line", line_id)
      r1 == [r EXCEPT !.affected_lines = Append(@, Entity(line_id, "Line", LineProps(line_id)))]
      log2 == Issue(log1, F, "isos", line_id)
      hn == HNode(line_id, "Line", <<>>, LineProps(line_id), 0)
      l == BatchLineLoop(IsoList(line_id), 1, include_spools, include_parts, F, hn, Bst(r1, log2, "none"))
      done == [l.node EXCEPT !.impact_count = CountHierarchyImpacts(l.node)]
  IN IF ~LastOk(log1) THEN Bst(r, log1, "DatabaseConnectionError")
     ELSE IF ~LineExists(line_id) THEN Bst(r, log1, "none")
     ELSE IF ~LastOk(log2) THEN Bst(r1, log2, "DatabaseConnectionError")
     ELSE IF l.st.exc # "none" THEN l.st
     ELSE Bst([l.st.result EXCEPT !.impact_hierarchy = Append(@, done)], l.st.log, "none")

\* faulty variant: the exception of the body is not caught
ProcessLine_NoCatch(line_id, include_spools, include_parts, F, r) ==
  LET b == ProcessLineBody(line_id, include_spools, include_parts, F, r)
  IN [b EXCEPT !.exc = IF b.exc = "none" THEN "none" ELSE "raised:" \o b.exc]

\* _process_line: "except Exception" logs and returns
ProcessLine(line_id, include_spools, include_parts, F, r) ==
  LET b == ProcessLineBody(line_id, include_spools, include_parts, F, r)
  IN [b EXCEPT !.exc = IF b.exc = "none" THEN "none" ELSE "caught:" \o b.exc]

\* the try block of _process_iso
ProcessIsoBody(iso_id, include_spools, include_parts, F, r) ==
  LET r1 == [r EXCEPT !.affected_isos = AddIsoIfAbsent(@, iso_id)]
      c == BatchGetIsoChildren(iso_id, include_spools, include_parts, F, Bst(r1, <<>>, "none"))
  IN IF c.st.exc # "none" THEN c.st
     ELSE Bst([c.st.result EXCEPT !.impact_hierarchy = Append(@, c.node)], c.st.log, "none")

\* faulty variant: a failed ISO leaves the result as it was before the ISO
ProcessIso_DropFailed(iso_id, include_spools, include_parts, F, r) ==
  LET b == ProcessIsoBody(iso_id, include_spools, include_parts, F, r)
  IN IF b.exc = "none" THEN b ELSE Bst(r, b.log, "caught:" \o b.exc)

\* faulty variant: the failed expansion is kept as a node without children
ProcessIso_KeepFailed(iso_id, include_spools, include_parts, F, r) ==
  LET b == ProcessIsoBody(iso_id, include_spools, include_parts, F, r)
  IN IF b.exc = "none" THEN b
     ELSE Bst([b.result EXCEPT !.impact_hierarchy =
                  Append(@, HNode(iso_id, "ISO", <<>>, ParseIsoId(iso_id), 0))],
              b.log, "caught:" \o b.exc)

\* _process_iso: "except Exception" logs and returns
ProcessIso(iso_id, include_spools, include_parts, F, r) ==
  LET b == ProcessIsoBody(iso_id, include_spools, include_parts, F, r)
  IN [b EXCEPT !.exc = IF b.exc = "none" THEN "none" ELSE "caught:" \o b.exc]

Escaped(exc) == exc \notin {"none", "caught:DatabaseConnectionError"}

NumLines == Len(req.line_numbers)
NumRoots == Len(req.line_numbers) + Len(req.iso_numbers)
RootId(r) == IF r <= NumLines THEN req.line_numbers[r] ELSE req.iso_numbers[r - NumLines]

\* the queries of one root enter the log tagged with the root's position
Tagged(log, r) == [i \in 1..Len(log) |-> [root |-> r, q |-> log[i].q, arg |-> log[i].arg, ok |-> log[i].ok]]

BatchRaised(exc) ==
  [kind |-> "raised", exc |-> exc, total_affected_isos |-> 0, total_affected_spools |-> 0,
   total_affected_parts |-> 0, total_impact_count |-> 0]

BatchStep(b) ==
  /\ qlog' = qlog \o Tagged(b.log, idx + 1)
  /\ idx' = idx + 1
  /\ IF Escaped(b.exc)
     THEN pc' = "done" /\ res' = BatchRaised(b.exc) /\ result' = result
     ELSE pc' = pc /\ res' = res /\ result' = b.result
  /\ UNCHANGED <<store, req, stack>>

\* "for line_id in line_numbers: await self._process_line(...)"
BatchProcessLine ==
  /\ pc = "batch"
  /\ idx < NumLines
  /\ \E f \in 0..MaxQueries :
       BatchStep(ProcessLine(req.line_numbers[idx + 1], req.include_spools, req.include_parts, {f}, result))

\* "for iso_id in iso_numbers: await self._process_iso(...)"
BatchProcessIso ==
  /\ pc = "batch"
  /\ idx >= NumLines /\ idx < NumRoots
  /\ \E f \in 0..MaxQueries :
       BatchStep(ProcessIso(req.iso_numbers[idx + 1 - NumLines], req.include_spools, req.include_parts, {f}, result))

\* the sum of the impact_count fields of the entries of impact_hierarchy
RECURSIVE SumImpactCounts(_)
SumImpactCounts(nodes) ==
  IF nodes = <<>> THEN 0 ELSE Head(nodes).impact_count + SumImpactCounts(Tail(nodes))

\* faulty variant: total_impact_count summed over the roots of impact_hierarchy
BatchMetrics_SumRoots(r) ==
  [kind |-> "ok", exc |-> "none",
   total_affected_isos |-> Len(r.affected_isos),
   total_affected_spools |-> Len(r.affected_spools),
   total_affected_parts |-> Len(r.affected_parts),
   total_impact_count |-> SumImpactCounts(r.impact_hierarchy)]

\* "Calculate metrics"
BatchMetrics(r) ==
  [kind |-> "ok", exc |-> "none",
   total_affected_isos |-> Len(r.affected_isos),
   total_affected_spools |-> Len(r.affected_spools),
   total_affected_parts |-> Len(r.affected_parts),
   total_impact_count |-> Len(r.affected_isos) + Len(r.affected_spools) + Len(r.affected_parts)]

\* "Calculate metrics" and return
BatchFinish ==
  /\ pc = "batch"
  /\ idx = NumRoots
  /\ res' = BatchMetrics(result)
  /\ pc' = "done"
  /\ UNCHANGED <<store, req, qlog, result, stack, idx>>

SeqsUpTo(S, n) == UNION {[1..k -> S] : k \in 0..n}

EmptyBatchResult ==
  [affected_lines |-> <<>>, affected_isos |-> <<>>, affected_spools |-> <<>>,
   affected_parts |-> <<>>, impact_hierarchy |-> <<>>]

\* the items a batch's store is drawn from: a line without ISOs, an ISO two
\* lines share, a spool two ISOs share, records without id
BatchItems ==
  { Item("line", NoId, L2, "l2"),
    Item("has_iso", L1, IsoA, "i1"),
    Item("has_iso", L1, IsoB, "i2"),
    Item("has_iso", L2, IsoA, "i1"),
    Item("spool", IsoA, S1, "fabricated"),
    Item("spool", IsoB, S1, "fabricated"),
    Item("spool", IsoB, None, "released"),
    Item("part", IsoA, P1, "p1"),
    Item("part", IsoB, None, "p4") }

BatchInit ==
  /\ store \in {S \in SUBSET BatchItems : Cardinality(S) <= BatchMaxStore}
  /\ \E ls \in SeqsUpTo({L1, L2}, MaxRoots), is \in SeqsUpTo({IsoA, IsoB}, MaxRoots),
        s \in BOOLEAN, p \in BOOLEAN :
       /\ Len(ls) + Len(is) <= MaxRoots
       /\ req = [line_numbers |-> ls, iso_numbers |-> is, include_spools |-> s, include_parts |-> p]
  /\ pc = "batch"
  /\ res = NoRes
  /\ qlog = <<>>
  /\ result = EmptyBatchResult
  /\ stack = <<>>
  /\ idx = 0

BatchNext == BatchProcessLine \/ BatchProcessIso \/ BatchFinish

SpecBatch == BatchInit /\ [][BatchNext]_vars

(***************************************************************************)
(* Properties of batch analysis                                            *)
(***************************************************************************)
Roots == 1..NumRoots

RootFailed(r) == \E i \in 1..Len(qlog) : qlog[i].root = r /\ ~qlog[i].ok

RootQueried(r, q) == \E i \in 1..Len(qlog) : qlog[i].root = r /\ qlog[i].q = q

\* the root's processing ran to its end: no query failed and, for a line, the line was found
RootCompleted(r) == ~RootFailed(r) /\ (r <= NumLines => LineExists(RootId(r)))

HierarchyIds == [i \in 1..Len(result.impact_hierarchy) |-> result.impact_hierarchy[i].entity_id]

\* C4: no exception escapes execute, and every root that follows a failed
\* root is still processed: every root's store queries are issued, every ISO
\* root is merged into affected_isos and every root that completes is merged
\* into impact_hierarchy.
C4_BatchNeverAborts ==
  pc = "done" =>
    /\ res.kind = "ok"
    /\ idx = NumRoots
    /\ \A r \in Roots :
         /\ r <= NumLines => RootQueried(r, "line")
         /\ r > NumLines =>
              /\ RootId(r) \in IdsOf(result.affected_isos)
              /\ req.include_spools => RootQueried(r, "spools")
         /\ RootCompleted(r) => RootId(r) \in Range(HierarchyIds)

\* C4 witness: a root failed with a store error, and a later root was
\* processed to its end and merged with its children.
C4_Witness ==
  /\ pc = "done" /\ res.kind = "ok"
  /\ \E r1, r2 \in Roots :
       /\ r1 < r2
       /\ RootFailed(r1)
       /\ RootCompleted(r2)
       /\ \E i \in 1..Len(result.impact_hierarchy) :
            /\ result.impact_hierarchy[i].entity_id = RootId(r2)
            /\ result.impact_hierarchy[i].children # <<>>

\* C5: when the processing of one batch root fails with a store error, that
\* root is excluded from the batch result: the step that processed it leaves
\* affected_lines, affected_isos, affected_spools, affected_parts and
\* impact_hierarchy as they were.
C5_FailedRootExcluded ==
  [][(/\ idx' = idx + 1
      /\ \E i \in 1..Len(qlog') : qlog'[i].root = idx' /\ ~qlog'[i].ok)
     => result' = result]_vars

ExpansionFailed(r) ==
  \E i \in 1..Len(qlog) : qlog[i].root = r /\ ~qlog[i].ok /\ qlog[i].q \in {"spools", "parts"}

\* C6 as claimed: when a store query fails while expanding the descendants of
\* one root, impact_hierarchy still contains an entry for every requested
\* root.
C6_AllRootsKept ==
  (/\ pc = "done"
   /\ \E r \in Roots : ExpansionFailed(r)
   /\ \A r \in Roots : r <= NumLines => LineExists(RootId(r)))
  => \A r \in Roots : RootId(r) \in Range(HierarchyIds)

RootSeq == [r \in Roots |-> r]

CompletedRootIds ==
  LET c == SelectSeq(RootSeq, LAMBDA r : RootCompleted(r)) IN [i \in 1..Len(c) |-> RootId(c[i])]

\* C6 amended: impact_hierarchy holds exactly the roots whose processing ran
\* to its end, in request order (lines, then ISOs); a root whose expansion
\* failed has no entry at all, and no exception escapes.
C6_CompletedRootsKept ==
  pc = "done" => (res.kind = "ok" /\ HierarchyIds = CompletedRootIds)

\* C6 witness: the expansion of one root failed, that root is absent from
\* impact_hierarchy and another root is present.
C6_Witness ==
  /\ pc = "done"
  /\ \E r1, r2 \in Roots :
       /\ ExpansionFailed(r1)
       /\ RootId(r1) \notin Range(HierarchyIds)
       /\ RootCompleted(r2)
       /\ RootId(r2) \in Range(HierarchyIds)

\* C8: affected_isos never holds two entries with the same id, also when an
\* ISO of iso_numbers is a HAS_ISO child of a requested line; the ISO counts
\* once in total_affected_isos and in total_impact_count.
C8_IsoOnce ==
  /\ NoDupIds(result.affected_isos)
  /\ pc = "done" =>
       /\ res.total_affected_isos = Cardinality(IdsOf(result.affected_isos))
       /\ res.total_impact_count = Cardinality(IdsOf(result.affected_isos))
                                   + Len(result.affected_spools) + Len(result.affected_parts)

\* C8 witness: an ISO root is also a child of a requested line that was
\* processed, and affected_isos holds it.
C8_Witness ==
  /\ pc = "done"
  /\ \E r1, r2 \in Roots :
       /\ r1 <= NumLines /\ r2 > NumLines
       /\ RootCompleted(r1) /\ RootCompleted(r2)
       /\ RootId(r2) \in IdsOf(IsoList(RootId(r1)))
       /\ RootId(r2) \in IdsOf(result.affected_isos)

\* the records of one type in the order they were processed, read off the hierarchy
RECURSIVE LeavesOf(_, _)
LeavesOf(nodes, type) ==
  IF nodes = <<>> THEN <<>>
  ELSE (IF Head(nodes).entity_type = type THEN <<Head(nodes)>> ELSE <<>>)
       \o LeavesOf(Head(nodes).children, type) \o LeavesOf(Tail(nodes), type)

FirstWins(list, type) ==
  LET p == LeavesOf(result.impact_hierarchy, type)
  IN \A e \in Range(list) : \A k \in 1..Len(p) :
       (p[k].entity_id = e.id /\ \A j \in 1..(k - 1) : p[j].entity_id # e.id)
       => e.properties = p[k].properties

\* C9: for any records the store returns, affected_spools and affected_parts
\* each hold no two entries with the same id, and the entry kept for an id
\* carries the properties of its first occurrence in processing order.
C9_NoDupFirstWins ==
  pc = "done" =>
    /\ NoDupIds(result.affected_spools)
    /\ NoDupIds(result.affected_parts)
    /\ (\A r \in Roots : RootCompleted(r)) =>
         (FirstWins(result.affected_spools, "SPOOL") /\ FirstWins(result.affected_parts, "Part"))

\* C11: in every batch result total_affected_isos, total_affected_spools and
\* total_affected_parts are the lengths of affected_isos, affected_spools and
\* affected_parts, and total_impact_count is the sum of the three lengths,
\* whatever impact_count values impact_hierarchy stores.
C11_MetricsAreLengths ==
  (pc = "done" /\ res.kind = "ok") =>
    /\ res.total_affected_isos = Len(result.affected_isos)
    /\ res.total_affected_spools = Len(result.affected_spools)
    /\ res.total_affected_parts = Len(result.affected_parts)
    /\ res.total_impact_count = res.total_affected_isos + res.total_affected_spools
                                + res.total_affected_parts

\* C11 witness: a finished batch with entries of all three types whose total
\* differs from the sum of the impact_count fields of impact_hierarchy.
C11_Witness ==
  /\ pc = "done" /\ res.kind = "ok"
  /\ res.total_affected_isos > 0
  /\ res.total_affected_spools > 0
  /\ res.total_affected_parts > 0
  /\ res.total_impact_count # SumImpactCounts(result.impact_hierarchy)

\* the ids of the entities of one hierarchy entry, the root's included
RECURSIVE TreeIds(_)
TreeIds(node) ==
  {node.entity_id} \cup UNION {TreeIds(node.children[i]) : i \in 1..Len(node.children)}

SharedByTwoRoots ==
  \E i, j \in 1..Len(result.impact_hierarchy) :
    i # j /\ TreeIds(result.impact_hierarchy[i]) \cap TreeIds(result.impact_hierarchy[j]) # {}

\* C12: for every batch result total_impact_count is at most the sum of the
\* impact_count of the root entries of impact_hierarchy, strictly less when
\* some entity is shared by two roots and equal when none is.
C12_TotalAtMostRootSum ==
  (pc = "done" /\ res.kind = "ok" /\ \A r \in Roots : RootCompleted(r)) =>
    /\ res.total_impact_count <= SumImpactCounts(result.impact_hierarchy)
    /\ SharedByTwoRoots => res.total_impact_count < SumImpactCounts(result.impact_hierarchy)
    /\ ~SharedByTwoRoots => res.total_impact_count = SumImpactCounts(result.impact_hierarchy)

(***************************************************************************)
(* Properties of the single-entity classification                          *)
(***************************************************************************)
SingleBand(n) ==
  CASE n = 0 -> "LOW"
    [] n \in 1..5 -> "MEDIUM"
    [] n \in 6..15 -> "HIGH"
    [] n > 15 -> "CRITICAL"

\* C13: the severity of every returned ImpactResult is the single-entity
\* band of the result's own impact_count (0 LOW, 1..5 MEDIUM, 6..15 HIGH,
\* above 15 CRITICAL), and that impact_count is the number of entries of the
\* result's three lists.
C13_SingleSeverityBands ==
  (pc = "done" /\ res.kind = "ok") =>
    /\ res.impact_count = Len(res.affected_isos) + Len(res.affected_spools) + Len(res.affected_parts)
    /\ res.severity = SingleBand(res.impact_count)

\* C13 witness: a result above the last threshold, classified CRITICAL
C13_Witness ==
  pc = "done" /\ res.kind = "ok" /\ res.impact_count = 16 /\ res.severity = "CRITICAL"

IsoChildrenOf(line_id) == {it \in store : it.k = "has_iso" /\ it.from = line_id}

\* C16: single-entity analysis of an existing Line with n HAS_ISO children
\* and no spools or parts returns impact_count = n (the Line itself is not
\* counted) and the single-entity band of n; for n = 7 that is HIGH.
C16_LineCountsIsos ==
  (/\ pc = "done"
   /\ Lower(req.entity_type) = "line"
   /\ req.description # ""
   /\ LineExists(req.entity_id)
   /\ \A it \in store : it.k \notin {"spool", "part"}
   /\ SingleAllOk)
  => /\ res.kind = "ok"
     /\ res.impact_count = Cardinality(IsoChildrenOf(req.entity_id))
     /\ res.severity = SingleBand(Cardinality(IsoChildrenOf(req.entity_id)))
     /\ Cardinality(IsoChildrenOf(req.entity_id)) = 7 => res.severity = "HIGH"

\* C16 witness: a Line with 7 ISO children analysed: impact_count 7, HIGH
C16_Witness ==
  /\ pc = "done" /\ res.kind = "ok"
  /\ Lower(req.entity_type) = "line"
  /\ Cardinality(IsoChildrenOf(req.entity_id)) = 7
  /\ res.impact_count = 7
  /\ res.severity = "HIGH"

(***************************************************************************)
(* The decision variables of a batch: BatchImpactAnalysisUseCase's         *)
(* _assess_severity and _requires_approval.  A severity value is a Python  *)
(* str or a member of ChangeSeverity(str, Enum); a member compares equal   *)
(* to the string that is its value.                                        *)
(***************************************************************************)
Str(v) == [kind |-> "str", name |-> v, value |-> v]
Member(n, v) == [kind |-> "ChangeSeverity", name |-> n, value |-> v]

SeverityValues ==
  {Str(v) : v \in {"", "low", "medium", "high", "critical", "LOW", "MEDIUM", "HIGH", "CRITICAL", "High"}}
  \cup {Member("LOW", "low"), Member("MEDIUM", "medium"), Member("HIGH", "high"),
        Member("CRITICAL", "critical")}

\* faulty variant: the thresholds of the single-entity classifier
AssessSeverityBatch_SingleBands(total_impact_count) ==
  IF total_impact_count = 0 THEN "low"
  ELSE IF total_impact_count <= 5 THEN "medium"
  ELSE IF total_impact_count <= 15 THEN "high"
  ELSE "critical"

AssessSeverityBatch(total_impact_count) ==
  IF total_impact_count = 0 THEN "low"
  ELSE IF total_impact_count <= 10 THEN "medium"
  ELSE IF total_impact_count <= 30 THEN "high"
  ELSE "critical"

\* faulty variant: the count is not looked at
RequiresApproval_SeverityOnly(severity, total_impact_count) ==
  severity.value \in {"high", "critical"}

\* severity in ["high", "critical"] or total_impact_count > 15
RequiresApproval(severity, total_impact_count) ==
  severity.value \in {"high", "critical"} \/ total_impact_count > 15

DecisionPending == [kind |-> "pending", severity |-> "null", requires_approval |-> FALSE]

\* the two calls, on any count and any severity value
DecisionStep ==
  /\ pc = "decide"
  /\ res' = [kind |-> "ok", severity |-> AssessSeverityBatch(req.count),
             requires_approval |-> RequiresApproval(req.severity, req.count)]
  /\ pc' = "done"
  /\ UNCHANGED <<store, req, qlog, result, stack, idx>>

DecisionInit ==
  /\ \E n \in 0..MaxCount, s \in SeverityValues : req = [count |-> n, severity |-> s]
  /\ pc = "decide"
  /\ res = DecisionPending
  /\ store = {}
  /\ qlog = <<>>
  /\ result = <<>>
  /\ stack = <<>>
  /\ idx = 0

DecisionNext == DecisionStep

SpecDecision == DecisionInit /\ [][DecisionNext]_vars

BatchBand(n) ==
  CASE n = 0 -> "low"
    [] n \in 1..10 -> "medium"
    [] n \in 11..30 -> "high"
    [] n > 30 -> "critical"

WrittenHighOrCritical(severity) ==
  \/ severity.kind = "str" /\ severity.value \in {"high", "critical", "HIGH", "CRITICAL"}
  \/ severity.kind = "ChangeSeverity" /\ severity.name \in {"HIGH", "CRITICAL"}

\* C15 as claimed: requiresApproval(severity, count) is true exactly when the
\* severity is one of high, critical, HIGH, CRITICAL or count > 15, for every
\* severity value and every count.
C15_ApprovalAnyCase ==
  pc = "done" =>
    (res.requires_approval <=> (WrittenHighOrCritical(req.severity) \/ req.count > 15))

\* C15 amended: requiresApproval(severity, count) is true exactly when the
\* severity equals the string high or critical (as the lower-case strings
\* and the ChangeSeverity members HIGH and CRITICAL do, and the upper-case
\* strings do not) or count > 15.
C15_ApprovalLowerCase ==
  pc = "done" =>
    (res.requires_approval <=>
       \/ req.severity \in {Str("high"), Str("critical"), Member("HIGH", "high"),
                            Member("CRITICAL", "critical")}
       \/ req.count > 15)

\* C15 witness: approval required by the count alone, under a severity below high
C15_Witness ==
  /\ pc = "done"
  /\ req.severity = Str("medium") /\ req.count = 16
  /\ res.requires_approval

(***************************************************************************)
(* Properties of the children tree                                         *)
(***************************************************************************)
\* the positions of the nodes of a tree: the index path from the top level
RECURSIVE TreePaths(_)
TreePaths(children) ==
  UNION {{<<i>>} \cup {<<i>> \o q : q \in TreePaths(children[i].children)} : i \in 1..Len(children)}

HierAllOk == \A i \in 1..Len(qlog) : qlog[i].ok

StoreCount(k, from) == Cardinality({it \in store : it.k = k /\ it.from = from})

\* C17: total_descendants is the number of nodes of the returned children
\* tree, the queried root not counted; an ISO queried at depth 1 with s spools
\* and p direct parts returns s + p top-level children without children.
C17_DescendantsCount ==
  (pc = "done" /\ res.kind = "ok") =>
    /\ res.total_descendants = Cardinality(TreePaths(res.children))
    /\ (Lower(req.entity_type) = "iso" /\ req.depth = 1 /\ HierAllOk) =>
         /\ Len(res.children) = StoreCount("spool", req.entity_id) + StoreCount("part", req.entity_id)
         /\ \A i \in 1..Len(res.children) : res.children[i].children = <<>>
         /\ res.total_descendants = Len(res.children)

\* C17 witness: an ISO with 2 spools and 1 direct part queried at depth 1
C17_Witness ==
  /\ pc = "done" /\ res.kind = "ok"
  /\ Lower(req.entity_type) = "iso" /\ req.depth = 1
  /\ StoreCount("spool", req.entity_id) = 2
  /\ StoreCount("part", req.entity_id) = 1
  /\ Len(res.children) = 3
  /\ res.total_descendants = 3

ChildIds(node) == {node.children[j].id : j \in 1..Len(node.children)}

RECURSIVE SumGrandchildren(_)
SumGrandchildren(children) ==
  IF children = <<>> THEN 0
  ELSE Len(Head(children).children) + SumGrandchildren(Tail(children))

\* C18: within one children traversal a node reachable through two parents
\* appears under each of them: below an ISO every spool node carries all the
\* parts the store groups under its id and every direct part of the ISO is a
\* child of the ISO, whether or not the same part is already in the tree,
\* and total_descendants counts every occurrence.
C18_NoCrossBranchDedup ==
  (/\ pc = "done" /\ res.kind = "ok" /\ HierAllOk
   /\ Lower(req.entity_type) = "iso" /\ req.depth >= 2)
  => LET s == StoreCount("spool", req.entity_id)
         p == StoreCount("part", req.entity_id)
     IN /\ Len(res.children) = s + p
        /\ \A i \in 1..s :
             /\ Len(res.children[i].children) = StoreCount("groups", res.children[i].id)
             /\ \A it \in store : (it.k = "groups" /\ it.from = res.children[i].id)
                                  => it.id \in ChildIds(res.children[i])
        /\ \A it \in store : (it.k = "part" /\ it.from = req.entity_id)
             => \E i \in (s + 1)..(s + p) : res.children[i].id = IdOrUnknown(it.id)
        /\ res.total_descendants = s + p + SumGrandchildren(res.children)

\* C18 witness: part P1 is a direct part of the ISO and is grouped by a spool
\* of the ISO; it is a child of the spool and a child of the ISO, counted twice.
C18_Witness ==
  /\ pc = "done" /\ res.kind = "ok"
  /\ Lower(req.entity_type) = "iso"
  /\ \E i, j \in 1..Len(res.children) :
       /\ i # j
       /\ P1 \in ChildIds(res.children[i])
       /\ res.children[j].id = P1
  /\ res.total_descendants = 3

(***************************************************************************)
(* Properties of single-entity analysis of other types                     *)
(***************************************************************************)
\* a well-formed change event for an entity that is neither a Line nor an
\* ISO, analysed without any store failure
OtherTypeAnalysed ==
  /\ pc = "done"
  /\ req.entity_id # NoId /\ req.entity_type # "" /\ req.description # ""
  /\ Lower(req.entity_type) \notin {"line", "iso"}
  /\ SingleAllOk

IdChars == {"A", "1", "."}

IdStrings == UNION {[1..n -> IdChars] : n \in 0..MaxIdLen}

ParsePending == [kind |-> "pending", parsed |-> [id |-> NoId, iso_number |-> NoId, sheet_number |-> NoId]]

ParseStep ==
  /\ pc = "parse"
  /\ res' = [kind |-> "ok", parsed |-> ParseIsoId(req.iso_id)]
  /\ pc' = "done"
  /\ UNCHANGED <<store, req, qlog, result, stack, idx>>

ParseInit ==
  /\ \E id \in IdStrings : req = [iso_id |-> id]
  /\ pc = "parse"
  /\ res = ParsePending
  /\ store = {}
  /\ qlog = <<>>
  /\ result = <<>>
  /\ stack = <<>>
  /\ idx = 0

ParseNext == ParseStep

SpecParse == ParseInit /\ [][ParseNext]_vars

DotsOf(id) == {i \in 1..Len(id) : id[i] = "."}

\* C20: for an id with exactly one '.', iso_number is the text before the
\* '.' and sheet_number the text after it; for an id without '.',
\* iso_number is the whole id, sheet_number is None and nothing is raised.
C20_ParseIsoId ==
  pc = "done" =>
    LET id == req.iso_id
        dots == DotsOf(id)
    IN /\ res.kind = "ok"
       /\ res.parsed.id = id
       /\ Cardinality(dots) = 1 =>
            LET d == CHOOSE i \in dots : TRUE
            IN /\ res.parsed.iso_number = SubSeq(id, 1, d - 1)
               /\ res.parsed.sheet_number = SubSeq(id, d + 1, Len(id))
       /\ dots = {} =>
            /\ res.parsed.iso_number = id
            /\ res.parsed.sheet_number = None

\* C20 witness: the id A.1 parsed into iso_number A and sheet_number 1
C20_Witness ==
  /\ pc = "done"
  /\ req.iso_id = <<"A", ".", "1">>
  /\ res.parsed.iso_number = <<"A">>
  /\ res.parsed.sheet_number = <<"1">>

\* C21: for every id that contains a '.', the id is iso_number followed by
\* '.' and sheet_number: the split is on the first '.' only and everything
\* after it is the sheet number.
C21_IdIsNumberDotSheet ==
  (pc = "done" /\ DotsOf(req.iso_id) # {}) =>
    /\ res.parsed.sheet_number # None
    /\ req.iso_id = res.parsed.iso_number \o <<".">> \o res.parsed.sheet_number

\* C22: after any batch analysis affected_lines holds each processed line at
\* most once, also when the same line id occurs more than once in
\* line_numbers.
C22_LinesOnce ==
  pc = "done" => NoDupIds(result.affected_lines)

\* an identifier that is empty or made of white space only
IsBlank(id) == \A i \in 1..Len(id) : id[i] = " "

\* C23: single-entity analysis given an empty or blank entity identifier
\* fails with an identifier error and issues no store query, and no
\* non-blank identifier is rejected as malformed.
C23_BlankIdRejected ==
  (pc = "done" /\ req.entity_type # "" /\ req.description # "") =>
    IF IsBlank(req.entity_id)
    THEN res.kind = "raised" /\ res.exc = "InvalidChangeEventError" /\ qlog = <<>>
    ELSE SupportsEntityType(req.entity_type) => res.exc # "InvalidChangeEventError"

(***************************************************************************)
(* Both children traversals, GetChildrenHierarchyUseCase.execute and       *)
(* GetChildrenStatusUseCase.execute, side by side                          *)
(***************************************************************************)
ChildrenInit == HierInit \/ StatusInit

ChildrenNext == HierNext \/ StatusNext

SpecChildren == ChildrenInit /\ [][ChildrenNext]_vars

\* the call is one of GetChildrenStatusUseCase (which takes no depth)
IsStatusCall == req.depth = 0

RootMissing == ~NodeExists(req.entity_id)

RECURSIVE CountsSelfAndChildren(_)
CountsSelfAndChildren(node) ==
  /\ node.impact_count = 1 + SumImpactCounts(node.children)
  /\ \A i \in 1..Len(node.children) : CountsSelfAndChildren(node.children[i])

\* C25: every node of every impact_hierarchy tree of a batch result has
\* impact_count = 1 + the sum of the impact_count of its children, for
\* Line roots, ISO roots and ISO nodes nested under a Line alike.
C25_CountIsOnePlusChildren ==
  pc = "done" =>
    \A i \in 1..Len(result.impact_hierarchy) : CountsSelfAndChildren(result.impact_hierarchy[i])

(***************************************************************************)
(* The order of an ISO's children in the hierarchy                         *)
(***************************************************************************)
\* id and latest_status of the nodes of one level
Level(children) ==
  [i \in 1..Len(children) |-> [id |-> children[i].id, latest_status |-> children[i].latest_status]]

\* the FABRICATED_AS spools of the ISO in store order, then its HAS_PART parts
SpoolsThenParts(iso_id) ==
  LET sp == Rows("spool", iso_id)
      pt == Rows("part", iso_id)
  IN [i \in 1..(Len(sp) + Len(pt)) |->
        IF i <= Len(sp) THEN [id |-> IdOrUnknown(sp[i].id), latest_status |-> sp[i].st]
        ELSE [id |-> IdOrUnknown(pt[i - Len(sp)].id), latest_status |-> "null"]]

\* C26: wherever the hierarchy expands an ISO (an ISO root, or an ISO below a
\* Line root at depth 2 or more) the ISO's children are exactly its spools in
\* store order followed by its direct parts in store order, at one level.
C26_SpoolsThenParts ==
  (pc = "done" /\ res.kind = "ok") =>
    /\ Lower(req.entity_type) = "iso" => Level(res.children) = SpoolsThenParts(req.entity_id)
    /\ (Lower(req.entity_type) = "line" /\ req.depth >= 2) =>
         \A i \in 1..Len(res.children) :
           Level(res.children[i].children) = SpoolsThenParts(res.children[i].id)

\* C26 witness: an ISO with two spools and a direct part has been expanded
\* to depth 2: the two spool nodes come first, the part node last
C26_Witness ==
  /\ pc = "done" /\ res.kind = "ok"
  /\ Lower(req.entity_type) = "iso" /\ req.depth = 2
  /\ StoreCount("spool", req.entity_id) = 2
  /\ StoreCount("part", req.entity_id) = 1
  /\ Len(res.children) = 3
  /\ res.children[1].latest_status # "null"
  /\ res.children[2].latest_status # "null"
  /\ res.children[3].latest_status = "null"

(***************************************************************************)
(* The order of the store queries of one hierarchy call                    *)
(***************************************************************************)
Q(q, arg) == [q |-> q, arg |-> arg]

\* the calls of the log without their outcomes
Calls(log) == [i \in 1..Len(log) |-> Q(log[i].q, log[i].arg)]

IsPrefix(s, t) == Len(s) <= Len(t) /\ \A i \in 1..Len(s) : s[i] = t[i]

\* the depth-first order: a node's query, then the whole subtree of each
\* child in turn
DfsSpool(spool_id, max_depth, current_depth) ==
  IF current_depth > max_depth THEN <<>> ELSE <<Q("groups", spool_id)>>

RECURSIVE DfsSpools(_, _, _)
DfsSpools(spools, max_depth, current_depth) ==
  IF spools = <<>> \/ current_depth >= max_depth THEN <<>>
  ELSE DfsSpool(IdOrUnknown(Head(spools).id), max_depth, current_depth + 1)
       \o DfsSpools(Tail(spools), max_depth, current_depth)

DfsIso(iso_id, max_depth, current_depth) ==
  IF current_depth > max_depth THEN <<>>
  ELSE <<Q("spools", iso_id)>> \o DfsSpools(Rows("spool", iso_id), max_depth, current_depth)
       \o <<Q("parts", iso_id)>>

RECURSIVE DfsIsos(_, _, _)
DfsIsos(isos, max_depth, current_depth) ==
  IF isos = <<>> \/ current_depth >= max_depth THEN <<>>
  ELSE DfsIso(Head(isos).id, max_depth, current_depth + 1)
       \o DfsIsos(Tail(isos), max_depth, current_depth)

DfsLine(line_id, max_depth, current_depth) ==
  IF current_depth > max_depth THEN <<>>
  ELSE <<Q("isos", line_id)>> \o DfsIsos(Rows("has_iso", line_id), max_depth, current_depth)

DfsOrder ==
  LET t == Lower(req.entity_type)
  IN CASE t = "line" -> DfsLine(req.entity_id, req.depth, 1)
       [] t = "iso" -> DfsIso(req.entity_id, req.depth, 1)
       [] t = "spool" -> DfsSpool(req.entity_id, req.depth, 1)
       [] OTHER -> <<>>

\* C27: within one hierarchy call the store queries are issued one after the
\* other in depth-first order: the calls made are the depth-first sequence of
\* the traversed tree, all of it when the call returns a result and an
\* initial part of it when a failed query ended the call.
C27_DepthFirstQueries ==
  pc = "done" =>
    /\ IsPrefix(Calls(qlog), DfsOrder)
    /\ res.kind = "ok" => Calls(qlog) = DfsOrder
    /\ res.kind = "raised" => ~LastOk(qlog)

\* C27 witness: an ISO with a spool and a direct part expanded to depth 2:
\* the spool's own query lies between the two queries of the ISO
C27_Witness ==
  /\ pc = "done" /\ res.kind = "ok"
  /\ Lower(req.entity_type) = "iso"
  /\ Len(qlog) = 3
  /\ qlog[1].q = "spools" /\ qlog[2].q = "groups" /\ qlog[3].q = "parts"

(***************************************************************************)
(* The batch endpoint batch_analyze_impact: the decision variables built   *)
(* from the metrics the use case returned                                  *)
(***************************************************************************)
\* faulty variant: approval decided by the count threshold alone
CamundaResponse_CountOnly(m) ==
  [kind |-> "response",
   total_impact_count |-> m.total_impact_count,
   severity |-> AssessSeverityBatch(m.total_impact_count),
   requires_approval |-> m.total_impact_count > 15,
   outcome |-> IF m.total_impact_count > 0 THEN "IMPACT" ELSE "NO_IMPACT"]

\* "Calculate severity" and "Build Camunda response"
CamundaResponse(m) ==
  [kind |-> "response",
   total_impact_count |-> m.total_impact_count,
   severity |-> AssessSeverityBatch(m.total_impact_count),
   requires_approval |-> RequiresApproval(Str(AssessSeverityBatch(m.total_impact_count)),
                                          m.total_impact_count),
   outcome |-> IF m.total_impact_count > 0 THEN "IMPACT" ELSE "NO_IMPACT"]

EndpointRespond ==
  /\ pc = "done"
  /\ res.kind = "ok"
  /\ res' = CamundaResponse(res)
  /\ pc' = "responded"
  /\ UNCHANGED <<store, req, qlog, result, stack, idx>>

\* the use case has returned: any metrics, total_impact_count being their sum
EndpointInit ==
  /\ \E i \in 0..MaxAffected, sp \in 0..MaxAffected, p \in 0..MaxAffected :
       res = [kind |-> "ok", exc |-> "none",
              total_affected_isos |-> i,
              total_affected_spools |-> sp,
              total_affected_parts |-> p,
              total_impact_count |-> i + sp + p]
  /\ req = [line_numbers |-> <<>>, iso_numbers |-> <<>>, include_spools |-> TRUE, include_parts |-> TRUE]
  /\ pc = "done"
  /\ store = {}
  /\ qlog = <<>>
  /\ result = EmptyBatchResult
  /\ stack = <<>>
  /\ idx = 0

EndpointNext == EndpointRespond

SpecEndpoint == EndpointInit /\ [][EndpointNext]_vars

\* the whole request: the use case, then the response
BatchEndpointNext == BatchNext \/ EndpointRespond

SpecBatchEndpoint == BatchInit /\ [][BatchEndpointNext]_vars

\* C28: on the batch endpoint requires_approval is true exactly when
\* total_impact_count >= 11; the count > 15 test never changes the decision,
\* which is that of the severity alone.
C28_ApprovalFromEleven ==
  pc = "responded" =>
    /\ res.requires_approval <=> res.total_impact_count >= 11
    /\ res.requires_approval <=> res.severity \in {"high", "critical"}

\* C28 witness: the responses for 10, 11, 15 and 16 affected entities lie on
\* both sides of both thresholds; this one is the first that needs approval
C28_Witness ==
  /\ pc = "responded"
  /\ res.total_impact_count = 11
  /\ res.severity = "high"
  /\ res.requires_approval

\* C29: a batch request with at least one id in iso_numbers is answered with
\* total_impact_count >= 1, a severity other than low and outcome IMPACT,
\* whatever the store holds and whichever store queries fail.
C29_IsoRequestHasImpact ==
  Len(req.iso_numbers) >= 1 =>
    /\ pc = "done" => res.kind = "ok" /\ res.total_impact_count >= 1
    /\ pc = "responded" =>
         /\ res.total_impact_count >= 1
         /\ res.severity # "low"
         /\ res.outcome = "IMPACT"

\* C29 witness: the only ISO of the request is not in the store and its
\* first query failed; the response still counts it
C29_Witness ==
  /\ pc = "responded"
  /\ req.line_numbers = <<>> /\ Len(req.iso_numbers) = 1
  /\ ~NodeExists(req.iso_numbers[1])
  /\ store # {}
  /\ qlog # <<>> /\ ~qlog[1].ok
  /\ res.total_impact_count = 1
  /\ res.severity = "medium"
  /\ res.outcome = "IMPACT"

(***************************************************************************)
(* Neo4jClient: the singleton's _driver field over a sequence of calls.    *)
(* result holds the client ([driver |-> ...]), idx counts the calls made,  *)
(* qlog lists them with their outcome and res is the last call's outcome.  *)
(* A driver is [gen, verified]: gen tells the drivers created apart and    *)
(* verified records whether verify_connectivity has succeeded on it.       *)
(***************************************************************************)
\* _driver is None
NoDriver == [gen |-> 0, verified |-> FALSE]

\* AsyncGraphDatabase.driver(...): the n-th call's driver, not yet verified
NewDriver(n) == [gen |-> n, verified |-> FALSE]

ClientRes(kind, exc, d) == [kind |-> kind, exc |-> exc, driver |-> d]

ClientCall(q, ok) == [q |-> q, arg |-> NoId, ok |-> ok]

\* what the environment does to one call: the database answers, the database
\* is unreachable, or the driver cannot even be created from the settings
Outcomes == {"up", "unreachable", "misconfigured"}

\* connect: creates and verifies a driver when there is none
Connect(d, n, o) ==
  IF d # NoDriver THEN [driver |-> d, exc |-> "none"]
  ELSE IF o = "misconfigured" THEN [driver |-> NoDriver, exc |-> "DatabaseConnectionError"]
  ELSE IF o = "unreachable" THEN [driver |-> NewDriver(n), exc |-> "DatabaseConnectionError"]
  ELSE [driver |-> [NewDriver(n) EXCEPT !.verified = TRUE], exc |-> "none"]

ClientStep(q, r, d) ==
  /\ res' = r
  /\ result' = [driver |-> d]
  /\ qlog' = Append(qlog, ClientCall(q, r.kind = "ok"))
  /\ idx' = idx + 1
  /\ UNCHANGED <<store, req, pc, stack>>

ClientReady == pc = "client" /\ idx < MaxCalls

ClientConnected(c) ==
  IF c.exc # "none" THEN ClientStep("connect", ClientRes("raised", c.exc, NoDriver), c.driver)
  ELSE ClientStep("connect", ClientRes("ok", "none", c.driver), c.driver)

ClientConnect ==
  /\ ClientReady
  /\ \E o \in Outcomes : ClientConnected(Connect(result.driver, idx + 1, o))

\* execute_query once connect has returned or raised: the query runs on _driver
ClientQueried(c, up) ==
  IF c.exc # "none" THEN ClientStep("execute_query", ClientRes("raised", c.exc, NoDriver), c.driver)
  ELSE IF ~up THEN ClientStep("execute_query", ClientRes("raised", "DatabaseConnectionError", c.driver), c.driver)
  ELSE ClientStep("execute_query", ClientRes("ok", "none", c.driver), c.driver)

ClientExecuteQuery ==
  /\ ClientReady
  /\ \E o \in Outcomes : ClientQueried(Connect(result.driver, idx + 1, o), o = "up")

\* verify_connectivity: True or False, never raises
ClientVerified(c, up) ==
  IF c.exc # "none" \/ ~up THEN ClientStep("verify_connectivity", ClientRes("false", "none", c.driver), c.driver)
  ELSE ClientStep("verify_connectivity", ClientRes("ok", "none", c.driver),
                  [c.driver EXCEPT !.verified = TRUE])

ClientVerifyConnectivity ==
  /\ ClientReady
  /\ \E o \in Outcomes : ClientVerified(Connect(result.driver, idx + 1, o), o = "up")

ClientClose ==
  /\ ClientReady
  /\ ClientStep("close", ClientRes("ok", "none", NoDriver), NoDriver)

ClientGetDriver ==
  /\ ClientReady
  /\ ClientStep("get_driver", ClientRes("ok", "none", result.driver), result.driver)

ClientInit ==
  /\ result = [driver |-> NoDriver]
  /\ res = ClientRes("pending", "none", NoDriver)
  /\ pc = "client"
  /\ req = [entity_type |-> "", entity_id |-> NoId, depth |-> 0]
  /\ store = {}
  /\ qlog = <<>>
  /\ stack = <<>>
  /\ idx = 0

ClientNext ==
  \/ ClientConnect
  \/ ClientExecuteQuery
  \/ ClientVerifyConnectivity
  \/ ClientClose
  \/ ClientGetDriver

SpecClient == ClientInit /\ [][ClientNext]_vars

\* C30: after connect() has raised DatabaseConnectionError the client holds
\* no driver, and the driver a later connect() returns or execute_query()
\* runs on is one whose connectivity was verified.
C30_FailedConnectLeavesNoDriver ==
  qlog # <<>> =>
    /\ (qlog[Len(qlog)].q = "connect" /\ res.kind = "raised") => result.driver = NoDriver
    /\ (qlog[Len(qlog)].q \in {"connect", "execute_query"} /\ res.driver # NoDriver)
         => res.driver.verified

====
